---- MODULE Spec2Model ----
(***************************************************************************)
(* CharacterTokenEmbedder (fairseq/modules/character_token_embedder.py).   *)
(*                                                                         *)
(* The embedder owns a vocabulary, a V x max_char_len table of character   *)
(* codes (word_to_char) and two symbol vectors.  set_vocab builds the      *)
(* table, forward embeds a batch of token ids or of character rows and     *)
(* overrides the pad / eos / unk positions.                                *)
(*                                                                         *)
(* Indices are 0-based as in the source; a sequence s of the model holds   *)
(* the element of index i at s[i + 1].  A word vector is one number         *)
(* (word_embed_dim = 1), the zero vector being 0.  The floating point      *)
(* result of the convolution pipeline is not computed: forward takes it    *)
(* as an arbitrary vector per row.                                         *)
(***************************************************************************)
EXTENDS Integers, Sequences, FiniteSets, TLC

VARIABLES
    status,             \* "new" before __init__ has run, then "constructed"
    max_char_len,       \* self.max_char_len
    char_inputs,        \* self.char_inputs
    filters,            \* the (width, out_c) pairs the convolutions were built from
    symbol_embeddings,  \* self.symbol_embeddings, <<row eos_idx, row unk_idx>>
    vocab,              \* self.vocab
    word_to_char,       \* self.word_to_char: [type, rows]
    truncated,          \* set_vocab's local counter when its loop ended
    printed,            \* what set_vocab printed: <<>> or <<count, max_char_len>>
    outcome,            \* the last forward call: "idle", "ok" or the error raised
    inputBefore,        \* the caller's tensor when forward was called
    input,              \* the caller's tensor now
    convIn,             \* the rows handed to _convolve
    applied,            \* per flat position, the last override written to it
    output,             \* what forward returned
    pending,            \* the arguments of a set_vocab call not yet run, if any
    fwd,                \* a forward call in progress: the next line and its locals
    rst,                \* a set_vocab call in progress: the next line and its locals
    built               \* the set_vocab arguments self.word_to_char was built from

embedder == <<status, max_char_len, char_inputs, filters, symbol_embeddings,
              vocab, word_to_char, truncated, printed, built>>
call == <<outcome, inputBefore, input, convIn, applied, output>>
threads == <<fwd, rst>>
vars == <<embedder, call, pending, threads>>

-----------------------------------------------------------------------------
(* Bounds of the model. *)

\* longest word of a vocabulary, in characters
MaxWordLen == 2
\* most regular words in a vocabulary
MaxWords == 2
\* largest max_char_len passed to __init__ and set_vocab
MaxCharLen == 2
\* most positions (batch x sequence) of a forward input
MaxPos == 2

(* Program constants. *)
CHAR_PAD_IDX == 0
CHAR_EOS_IDX == 257
\* rows of char_embeddings: nn.Embedding(257, ...)
NumCharEmbeddings == 257
eos_idx == 0
unk_idx == 1

None == <<>>
NoTensor == [type |-> "none", data |-> <<>>]

-----------------------------------------------------------------------------
(* The vocabulary (fairseq.data.Dictionary): its symbols, the number of     *)
(* special symbols at the low end and the reserved indices.                 *)

\* characters the words are written in: 'a' (1 byte) and e-acute (2 bytes)
CodePoints == {97, 233}
\* the text of a special symbol, "</s>"
SpecialText == <<60, 47, 115, 62>>

SeqsUpTo(S, n) == UNION {[1..k -> S] : k \in 0..n}

Words == SeqsUpTo(CodePoints, MaxWordLen)

\* pad, eos, unk as in the spec's example and as fairseq's Dictionary lays them out
Layouts == { [nspecial |-> 3, pad |-> 0, eos |-> 1, unk |-> 2],
             [nspecial |-> 4, pad |-> 1, eos |-> 2, unk |-> 3] }

Dictionary(layout, words) ==
    [symbols  |-> [i \in 1..layout.nspecial |-> SpecialText] \o words,
     nspecial |-> layout.nspecial,
     pad      |-> layout.pad,
     eos      |-> layout.eos,
     unk      |-> layout.unk]

\* len(vocab)
VocabLen(v) == Len(v.symbols)
\* vocab[i]
Symbol(v, i) == v.symbols[i + 1]

Vocabularies == {Dictionary(l, ws) : l \in Layouts, ws \in SeqsUpTo(Words, MaxWords)}

-----------------------------------------------------------------------------
(* set_vocab *)

\* str.encode(): the UTF-8 bytes of one character
EncodeChar(cp) ==
    IF cp < 128 THEN <<cp>>
    ELSE IF cp < 2048 THEN <<192 + (cp \div 64), 128 + (cp % 64)>>
    ELSE IF cp < 65536 THEN
        <<224 + (cp \div 4096), 128 + ((cp \div 64) % 64), 128 + (cp % 64)>>
    ELSE <<240 + (cp \div 262144), 128 + ((cp \div 4096) % 64),
           128 + ((cp \div 64) % 64), 128 + (cp % 64)>>

RECURSIVE Encode(_)
Encode(text) ==
    IF text = <<>> THEN <<>> ELSE EncodeChar(Head(text)) \o Encode(Tail(text))

\* [0] * n, which is [] when n <= 0
Zeros(n) == [k \in 1..n |-> 0]

\* the threshold mutated: the last special index is encoded like a word
CharIdxsSpecialOffByOne(v, i, mcl) ==
    IF i < v.nspecial - 1
    THEN Zeros(mcl)
    ELSE LET chars == Encode(Symbol(v, i))
         IN  [k \in 1..Len(chars) |-> chars[k] + 1] \o Zeros(mcl - Len(chars))

\* the codes mutated: the bytes are stored without the +1
CharIdxsNoOffset(v, i, mcl) ==
    IF i < v.nspecial
    THEN Zeros(mcl)
    ELSE LET chars == Encode(Symbol(v, i))
         IN  chars \o Zeros(mcl - Len(chars))

\* char_idxs of index i before truncation
CharIdxs(v, i, mcl) ==
    IF i < v.nspecial
    THEN Zeros(mcl)
    ELSE LET chars == Encode(Symbol(v, i))
         IN  [k \in 1..Len(chars) |-> chars[k] + 1] \o Zeros(mcl - Len(chars))

\* the test mutated: a word of exactly max_char_len bytes counts as truncated
TooLongInclusive(char_idxs, mcl) == Len(char_idxs) >= mcl

\* len(char_idxs) > max_char_len
TooLong(char_idxs, mcl) == Len(char_idxs) > mcl

\* the loop of set_vocab from index i on: the rows built and the counter
RECURSIVE BuildLoop(_, _, _, _, _)
BuildLoop(v, mcl, i, rows, count) ==
    IF i >= VocabLen(v)
    THEN [rows |-> rows, truncated |-> count]
    ELSE LET char_idxs == CharIdxs(v, i, mcl)
         IN  IF TooLong(char_idxs, mcl)
             THEN BuildLoop(v, mcl, i + 1,
                            Append(rows, SubSeq(char_idxs, 1, mcl)), count + 1)
             ELSE BuildLoop(v, mcl, i + 1, Append(rows, char_idxs), count)

BuildTable(v, mcl) == BuildLoop(v, mcl, 0, <<>>, 0)

\* print('Truncated {} words longer than {} characters')
Diagnostic(count, mcl) == IF count > 0 THEN <<count, mcl>> ELSE None

LongTensor == "torch.LongTensor"

\* set_vocab(vocab, max_char_len): self.max_char_len is left as it was
set_vocab(v, mcl) ==
    LET new == BuildTable(v, mcl)
    IN  /\ truncated' = new.truncated
        /\ printed' = Diagnostic(new.truncated, mcl)
        /\ vocab' = v
        /\ word_to_char' = [type |-> LongTensor, rows |-> new.rows]
        /\ built' = [vocab |-> v, max_char_len |-> mcl]

FirstVocab == Dictionary(CHOOSE l \in Layouts : l.nspecial = 3, <<>>)

IdleCall ==
    /\ outcome = "idle" /\ inputBefore = NoTensor /\ input = NoTensor
    /\ convIn = None /\ applied = None /\ output = None

NoTable == [type |-> LongTensor, rows |-> <<>>]
NoArgs == [vocab |-> FirstVocab, max_char_len |-> 0]

\* no forward call in progress
IdleFwd ==
    [pc |-> "idle", tmp |-> NoTable, tmpBuilt |-> NoArgs,
     chars |-> <<>>, pads |-> <<>>, eos |-> <<>>, unk |-> <<>>,
     charsOf |-> FirstVocab, padOf |-> FirstVocab, eosOf |-> FirstVocab,
     unkOf |-> FirstVocab]

\* no set_vocab call in progress; last holds the arguments of the last one that ended
IdleRst(last) == [pc |-> "idle", args |-> NoArgs, rows |-> <<>>, last |-> last]

IdleThreads ==
    /\ fwd = IdleFwd
    /\ rst = IdleRst(NoArgs)

-----------------------------------------------------------------------------
(* forward *)

\* what xavier_normal_ may leave in a row of symbol_embeddings
SymbolVals == {1, 2}
\* what the projection may return for a row
ComposedVals == {0, 3}

CudaLongTensor == "torch.cuda.LongTensor"
TensorTypes == {LongTensor, CudaLongTensor}

\* batch x sequence shapes of at most MaxPos positions
Shapes == {bt \in (1..MaxPos) \X (1..MaxPos) : bt[1] * bt[2] <= MaxPos}

\* tensors of shape bt with elements of S
Tensors(bt, S) == [1..bt[1] -> [1..bt[2] -> S]]

RECURSIVE Concat(_)
Concat(rows) == IF rows = <<>> THEN <<>> ELSE Head(rows) \o Concat(Tail(rows))

\* input.view(-1) and input.view(-1, max_char_len): the positions in row-major order
Flat(data) == Concat(data)

\* x.view(input.size()[:2] + (-1,)): flat positions back in batch x sequence shape
Unflat(flat, data) ==
    [b \in 1..Len(data) |->
        [t \in 1..Len(data[1]) |-> flat[(b - 1) * Len(data[1]) + t]]]

\* x.eq(c), element by element
Eq(xs, c) == [n \in 1..Len(xs) |-> xs[n] = c]

\* chars[:, 0]
FirstCodes(chars) == [n \in 1..Len(chars) |-> chars[n][1]]

\* mask.any()
AnyOf(mask) == \E n \in 1..Len(mask) : mask[n]

\* x[mask] = value
MaskedFill(xs, mask, value) == [n \in 1..Len(xs) |-> IF mask[n] THEN value ELSE xs[n]]

\* the clearing left out: the sentinel rows reach the convolution as they came
ClearEosSkipped(chars, eos) == chars

\* if eos.any(): chars[eos] = 0
ClearEos(chars, eos) ==
    IF AnyOf(eos) THEN MaskedFill(chars, eos, Zeros(Len(chars[1]))) ELSE chars

\* the input as a copy would leave it: the caller's tensor is not written
InputAfterCopied(data, chars) == data

\* chars is a view of input, so what is written to chars is written to input
InputAfter(data, chars) == Unflat(chars, data)

\* self.symbol_embeddings[idx]
SymbolEmbedding(idx) == symbol_embeddings[idx + 1]

\* the two symbol rows taken the wrong way round
OverrideSwapped(word_embs, pads, eos, unk) ==
    LET e1 == IF AnyOf(pads) THEN MaskedFill(word_embs, pads, 0) ELSE word_embs
        e2 == IF AnyOf(eos) THEN MaskedFill(e1, eos, SymbolEmbedding(unk_idx)) ELSE e1
    IN  IF unk # None /\ AnyOf(unk) THEN MaskedFill(e2, unk, SymbolEmbedding(eos_idx)) ELSE e2

\* the overrides of forward, in the source's order; unk is None in character mode
Override(word_embs, pads, eos, unk) ==
    LET e1 == IF AnyOf(pads) THEN MaskedFill(word_embs, pads, 0) ELSE word_embs
        e2 == IF AnyOf(eos) THEN MaskedFill(e1, eos, SymbolEmbedding(eos_idx)) ELSE e1
    IN  IF unk # None /\ AnyOf(unk) THEN MaskedFill(e2, unk, SymbolEmbedding(unk_idx)) ELSE e2

\* per position, the last override written to it
Applied(pads, eos, unk) ==
    [n \in 1..Len(pads) |->
        IF unk # None /\ unk[n] THEN "unk"
        ELSE IF eos[n] THEN "eos"
        ELSE IF pads[n] THEN "pad"
        ELSE "none"]

\* _convolve(char_idxs): "ok" when it returns.  The embedding lookup raises for
\* a code that is no row of char_embeddings, a convolution wider than the rows
\* raises when it is applied.
_convolve(char_idxs) ==
    IF \E n \in 1..Len(char_idxs) : \E k \in 1..Len(char_idxs[n]) :
            char_idxs[n][k] < 0 \/ char_idxs[n][k] >= NumCharEmbeddings
    THEN "IndexError"
    ELSE IF \E f \in 1..Len(filters) : filters[f][1] > Len(char_idxs[1])
    THEN "RuntimeError"
    ELSE "ok"

\* forward has returned or raised, and the caller still holds the result
Called == outcome # "idle"

\* the rest of forward from the call of _convolve on
Compose(data, chars, pads, eos, unk, composed) ==
    /\ convIn' = chars
    /\ outcome' = _convolve(chars)
    /\ IF _convolve(chars) = "ok"
       THEN /\ applied' = Applied(pads, eos, unk)
            /\ output' = Unflat(Override(composed, pads, eos, unk), data)
       ELSE /\ applied' = None
            /\ output' = None

\* self.word_to_char.type_as(input)
TypeAs(table, inp) == [table EXCEPT !.type = inp.type]

\* forward(input) with char_inputs = False; composed is what _convolve returns
ForwardTokens(inp, composed) ==
    /\ status = "constructed" /\ ~char_inputs /\ ~Called
    /\ inputBefore' = inp
    /\ input' = inp
    /\ word_to_char' = TypeAs(word_to_char, inp)
    /\ LET flat_words == Flat(inp.data)
       IN  IF \E n \in 1..Len(flat_words) : flat_words[n] >= Len(word_to_char.rows)
           THEN /\ outcome' = "IndexError"
                /\ convIn' = None /\ applied' = None /\ output' = None
           ELSE Compose(inp.data,
                        [n \in 1..Len(flat_words) |-> word_to_char.rows[flat_words[n] + 1]],
                        Eq(flat_words, vocab.pad),
                        Eq(flat_words, vocab.eos),
                        Eq(flat_words, vocab.unk),
                        composed)
    /\ UNCHANGED <<status, max_char_len, char_inputs, filters, symbol_embeddings,
                   vocab, truncated, printed, built>>
    /\ UNCHANGED <<pending, threads>>

\* forward(input) with char_inputs = True
ForwardChars(inp, composed) ==
    /\ status = "constructed" /\ char_inputs /\ ~Called
    /\ inputBefore' = inp
    /\ LET rows == Flat(inp.data)
           pads == Eq(FirstCodes(rows), CHAR_PAD_IDX)
           eos  == Eq(FirstCodes(rows), CHAR_EOS_IDX)
           chars == ClearEos(rows, eos)
       IN  /\ input' = [inp EXCEPT !.data = InputAfter(inp.data, chars)]
           /\ Compose(inp.data, chars, pads, eos, None, composed)
    /\ UNCHANGED <<embedder, pending, threads>>

\* the caller is done with what forward returned
Return ==
    /\ Called
    /\ outcome' = "idle"
    /\ inputBefore' = NoTensor /\ input' = NoTensor
    /\ convIn' = None /\ applied' = None /\ output' = None
    /\ UNCHANGED <<embedder, pending, threads>>

-----------------------------------------------------------------------------
(* Construction *)

\* the code of a character, 'a' + 1
RegularCode == 97 + 1
\* first codes of an input row: pad, a character, the sentinel, and one past it
FirstRawCodes == {CHAR_PAD_IDX, RegularCode, CHAR_EOS_IDX, CHAR_EOS_IDX + 1}
\* the codes after the first: a character, or the sentinel out of its place
RestRawCodes == {RegularCode, CHAR_EOS_IDX}

\* rows of n codes: a first code, then one code repeated
CharRows(n) ==
    {[k \in 1..n |-> IF k = 1 THEN a ELSE b] : a \in FirstRawCodes, b \in RestRawCodes}

\* filter banks of (width, out_c): one filter of width 1, and a bank with a wider one
FilterBanks == { << <<1, 1>> >>, << <<1, 2>>, <<2, 1>> >> }

\* vocabularies the embedder is constructed and reset with: one word, "a"
SmallVocabularies == {Dictionary(l, << <<97>> >>) : l \in Layouts}

\* reset_parameters(): the symbol rows after xavier_normal_
reset_parameters == symbol_embeddings' \in [1..2 -> SymbolVals]

\* __init__(vocab, filters, ..., max_char_len, char_inputs)
__init__(v, fs, mcl, ci) ==
    /\ status = "new"
    /\ status' = "constructed"
    /\ max_char_len' = mcl
    /\ char_inputs' = ci
    /\ filters' = fs
    /\ set_vocab(v, mcl)
    /\ reset_parameters
    /\ UNCHANGED <<call, pending, threads>>

\* set_vocab called on the constructed embedder
SetVocab(v, mcl) ==
    /\ status = "constructed" /\ ~Called
    /\ set_vocab(v, mcl)
    /\ UNCHANGED <<status, max_char_len, char_inputs, filters, symbol_embeddings>>
    /\ UNCHANGED <<call, pending, threads>>

Init ==
    /\ status = "new"
    /\ max_char_len = 0
    /\ char_inputs = FALSE
    /\ filters = <<>>
    /\ symbol_embeddings = <<0, 0>>
    /\ vocab = FirstVocab
    /\ word_to_char = [type |-> LongTensor, rows |-> <<>>]
    /\ built = [vocab |-> FirstVocab, max_char_len |-> 0]
    /\ truncated = 0
    /\ printed = None
    /\ IdleCall
    /\ IdleThreads
    /\ pending = {}

\* the constructor is called
Construction ==
    \E v \in SmallVocabularies, fs \in FilterBanks, mcl \in 1..MaxCharLen,
       ci \in BOOLEAN : __init__(v, fs, mcl, ci)

\* the vocabulary is reset, between two forward calls
VocabularyReset ==
    /\ status = "constructed" /\ ~Called
    /\ \E v \in SmallVocabularies, mcl \in 1..MaxCharLen : SetVocab(v, mcl)

\* forward is called with a batch of token ids, one of them possibly past the table
TokenForward ==
    /\ status = "constructed" /\ ~char_inputs /\ ~Called
    /\ \E bt \in Shapes, type \in TensorTypes :
        \E data \in Tensors(bt, 0..VocabLen(vocab)) :
        \E composed \in [1..(bt[1] * bt[2]) -> ComposedVals] :
            ForwardTokens([type |-> type, data |-> data], composed)

\* forward is called with a batch of character rows
CharForward ==
    /\ status = "constructed" /\ char_inputs /\ ~Called
    /\ \E bt \in Shapes :
        \E data \in Tensors(bt, CharRows(max_char_len)) :
        \E composed \in [1..(bt[1] * bt[2]) -> ComposedVals] :
            ForwardChars([type |-> LongTensor, data |-> data], composed)

Next ==
    \/ Construction
    \/ VocabularyReset
    \/ TokenForward
    \/ CharForward
    \/ Return

Spec == Init /\ [][Next]_vars

-----------------------------------------------------------------------------
(* Table building on its own: the arguments are drawn first, then the call  *)
(* runs on an embedder constructed with the smallest vocabulary.            *)

InitVocab ==
    /\ status = "constructed"
    /\ max_char_len = 1
    /\ char_inputs = FALSE
    /\ filters = << <<1, 1>> >>
    /\ symbol_embeddings = <<1, 2>>
    /\ vocab = FirstVocab
    /\ word_to_char = [type |-> LongTensor, rows |-> BuildTable(FirstVocab, 1).rows]
    /\ built = [vocab |-> FirstVocab, max_char_len |-> 1]
    /\ truncated = 0
    /\ printed = None
    /\ IdleCall
    /\ IdleThreads
    /\ \E a \in [vocab : Vocabularies, max_char_len : 1..MaxCharLen] : pending = {a}

\* resetVocabulary(newVocab, maxCharLen): the pending call runs
ResetVocabulary ==
    /\ \E a \in pending : set_vocab(a.vocab, a.max_char_len)
    /\ pending' = {}
    /\ UNCHANGED <<status, max_char_len, char_inputs, filters, symbol_embeddings>>
    /\ UNCHANGED <<call, threads>>

NextVocab == ResetVocabulary

SpecVocab == InitVocab /\ [][NextVocab]_vars

-----------------------------------------------------------------------------
(* forward and set_vocab called from two threads.  Each action is one        *)
(* statement of the source; a statement reads or writes self at most once,   *)
(* and nothing in the source keeps the two calls apart.                      *)

InitConc ==
    /\ status = "constructed"
    /\ max_char_len = 1
    /\ char_inputs = FALSE
    /\ filters = << <<1, 1>> >>
    /\ symbol_embeddings = <<1, 2>>
    /\ \E v \in SmallVocabularies :
        /\ vocab = v
        /\ word_to_char = [type |-> LongTensor, rows |-> BuildTable(v, 1).rows]
        /\ built = [vocab |-> v, max_char_len |-> 1]
        /\ rst = IdleRst([vocab |-> v, max_char_len |-> 1])
    /\ truncated = 0
    /\ printed = None
    /\ IdleCall
    /\ fwd = IdleFwd
    /\ pending = {}

\* forward(input) is entered, with a batch of one token id
FwdCall ==
    /\ fwd.pc = "idle" /\ ~Called
    /\ \E type \in TensorTypes :
        \E data \in Tensors(<<1, 1>>, 0..VocabLen(vocab)) :
            /\ inputBefore' = [type |-> type, data |-> data]
            /\ input' = [type |-> type, data |-> data]
    /\ fwd' = [fwd EXCEPT !.pc = "103 read"]
    /\ UNCHANGED <<embedder, outcome, convIn, applied, output, pending, rst>>

\* line 103, right-hand side: self.word_to_char.type_as(input)
Fwd103Read ==
    /\ fwd.pc = "103 read"
    /\ fwd' = [fwd EXCEPT !.pc = "103 write",
                          !.tmp = TypeAs(word_to_char, input),
                          !.tmpBuilt = built]
    /\ UNCHANGED <<embedder, call, pending, rst>>

\* line 103, the assignment: self.word_to_char = ...
Fwd103Write ==
    /\ fwd.pc = "103 write"
    /\ word_to_char' = fwd.tmp
    /\ built' = fwd.tmpBuilt
    /\ fwd' = [fwd EXCEPT !.pc = "105"]
    /\ UNCHANGED <<status, max_char_len, char_inputs, filters, symbol_embeddings,
                   vocab, truncated, printed>>
    /\ UNCHANGED <<call, pending, rst>>

\* line 105: chars = self.word_to_char[flat_words]
Fwd105 ==
    /\ fwd.pc = "105"
    /\ LET flat_words == Flat(input.data)
       IN  IF \E n \in 1..Len(flat_words) : flat_words[n] >= Len(word_to_char.rows)
           THEN /\ outcome' = "IndexError"
                /\ fwd' = [fwd EXCEPT !.pc = "done"]
           ELSE /\ outcome' = outcome
                /\ fwd' = [fwd EXCEPT
                            !.pc = "106",
                            !.chars = [n \in 1..Len(flat_words) |->
                                          word_to_char.rows[flat_words[n] + 1]],
                            !.charsOf = built.vocab]
    /\ UNCHANGED <<embedder, inputBefore, input, convIn, applied, output, pending, rst>>

\* line 106: pads = flat_words.eq(self.vocab.pad())
Fwd106 ==
    /\ fwd.pc = "106"
    /\ fwd' = [fwd EXCEPT !.pc = "107",
                          !.pads = Eq(Flat(input.data), vocab.pad),
                          !.padOf = vocab]
    /\ UNCHANGED <<embedder, call, pending, rst>>

\* line 107: eos = flat_words.eq(self.vocab.eos())
Fwd107 ==
    /\ fwd.pc = "107"
    /\ fwd' = [fwd EXCEPT !.pc = "108",
                          !.eos = Eq(Flat(input.data), vocab.eos),
                          !.eosOf = vocab]
    /\ UNCHANGED <<embedder, call, pending, rst>>

\* line 108: unk = flat_words.eq(self.vocab.unk())
Fwd108 ==
    /\ fwd.pc = "108"
    /\ fwd' = [fwd EXCEPT !.pc = "110",
                          !.unk = Eq(Flat(input.data), vocab.unk),
                          !.unkOf = vocab]
    /\ UNCHANGED <<embedder, call, pending, rst>>

\* lines 110 to 120: the convolution, the overrides and the return
Fwd110 ==
    /\ fwd.pc = "110"
    /\ \E composed \in [1..Len(fwd.chars) -> ComposedVals] :
        Compose(input.data, fwd.chars, fwd.pads, fwd.eos, fwd.unk, composed)
    /\ fwd' = [fwd EXCEPT !.pc = "done"]
    /\ UNCHANGED <<embedder, inputBefore, input, pending, rst>>

\* the caller is done with the result
FwdReturn ==
    /\ fwd.pc = "done"
    /\ fwd' = IdleFwd
    /\ outcome' = "idle"
    /\ inputBefore' = NoTensor /\ input' = NoTensor
    /\ convIn' = None /\ applied' = None /\ output' = None
    /\ UNCHANGED <<embedder, pending, rst>>

\* set_vocab(vocab, max_char_len) is entered
RstCall ==
    /\ rst.pc = "idle"
    /\ \E v \in SmallVocabularies, mcl \in 1..MaxCharLen :
        rst' = [rst EXCEPT !.pc = "59", !.args = [vocab |-> v, max_char_len |-> mcl]]
    /\ UNCHANGED <<embedder, call, pending, fwd>>

\* lines 59 to 75: the table is built in a local, the message printed
Rst59 ==
    /\ rst.pc = "59"
    /\ LET new == BuildTable(rst.args.vocab, rst.args.max_char_len)
       IN  /\ rst' = [rst EXCEPT !.pc = "77", !.rows = new.rows]
           /\ truncated' = new.truncated
           /\ printed' = Diagnostic(new.truncated, rst.args.max_char_len)
    /\ UNCHANGED <<status, max_char_len, char_inputs, filters, symbol_embeddings,
                   vocab, word_to_char, built>>
    /\ UNCHANGED <<call, pending, fwd>>

\* line 77: self.vocab = vocab
Rst77 ==
    /\ rst.pc = "77"
    /\ vocab' = rst.args.vocab
    /\ rst' = [rst EXCEPT !.pc = "78"]
    /\ UNCHANGED <<status, max_char_len, char_inputs, filters, symbol_embeddings,
                   word_to_char, truncated, printed, built>>
    /\ UNCHANGED <<call, pending, fwd>>

\* line 78: self.word_to_char = word_to_char, and set_vocab returns
Rst78 ==
    /\ rst.pc = "78"
    /\ word_to_char' = [type |-> LongTensor, rows |-> rst.rows]
    /\ built' = rst.args
    /\ rst' = IdleRst(rst.args)
    /\ UNCHANGED <<status, max_char_len, char_inputs, filters, symbol_embeddings,
                   vocab, truncated, printed>>
    /\ UNCHANGED <<call, pending, fwd>>

NextConc ==
    \/ FwdCall \/ Fwd103Read \/ Fwd103Write \/ Fwd105 \/ Fwd106 \/ Fwd107
    \/ Fwd108 \/ Fwd110 \/ FwdReturn
    \/ RstCall \/ Rst59 \/ Rst77 \/ Rst78

SpecConc == InitConc /\ [][NextConc]_vars

-----------------------------------------------------------------------------
(* What the table holds after set_vocab. *)

\* row i of self.word_to_char
Row(i) == word_to_char.rows[i + 1]

\* a set_vocab call has run to its end and none is waiting or in progress
ResetDone == status = "constructed" /\ pending = {} /\ rst.pc = "idle"

\* a row read left to right up to its first zero, 1 subtracted from each code
RECURSIVE ReadCodes(_)
ReadCodes(row) ==
    IF row = <<>> \/ Head(row) = 0
    THEN <<>>
    ELSE <<Head(row) - 1>> \o ReadCodes(Tail(row))

\* the first n elements of s, all of s when it has no more than n
FirstN(s, n) == IF Len(s) <= n THEN s ELSE SubSeq(s, 1, n)

RegularIndices(v) == v.nspecial .. (VocabLen(v) - 1)

\* the regular words of v with more than mcl bytes
OverLength(v, mcl) == {i \in RegularIndices(v) : Len(Encode(Symbol(v, i))) > mcl}

\* C2: after set_vocab(vocab, max_char_len), every row i < vocab.nspecial of
\* word_to_char is max_char_len zeros.
C2_SpecialRowsZero ==
    ResetDone =>
        \A i \in 0..(vocab.nspecial - 1) :
            /\ Len(Row(i)) = built.max_char_len
            /\ \A k \in 1..built.max_char_len : Row(i)[k] = 0

\* a table was rebuilt for four special symbols and rows of two codes
C2_Witness ==
    /\ ResetDone
    /\ vocab.nspecial = 4
    /\ built.max_char_len = 2
    /\ VocabLen(vocab) > 4
    /\ Row(3) = <<0, 0>>

\* C3: after set_vocab, row i >= nspecial read up to its first zero, less 1 per
\* code, is the bytes of vocab[i], or their first max_char_len when there are more.
C3_RowRoundTrip ==
    ResetDone =>
        \A i \in RegularIndices(vocab) :
            ReadCodes(Row(i)) = FirstN(Encode(Symbol(vocab, i)), built.max_char_len)

\* a table with a padded one-byte word and a word cut inside a two-byte character
C3_Witness ==
    /\ ResetDone
    /\ built.max_char_len = 2
    /\ \E i \in RegularIndices(vocab) : Row(i) = <<98, 0>>
    /\ \E i \in RegularIndices(vocab) :
        /\ Symbol(vocab, i) = <<97, 233>>
        /\ Row(i) = <<98, 196>>

\* C4: when set_vocab ends, its counter is the number of words with more than
\* max_char_len bytes, the message is printed exactly when that number is not 0
\* and reports it, and every row of the table was built (no error was raised).
C4_TruncationCount ==
    ResetDone =>
        LET n == Cardinality(OverLength(vocab, built.max_char_len))
        IN  /\ truncated = n
            /\ (printed # None) <=> (n # 0)
            /\ n # 0 => printed = <<n, built.max_char_len>>
            /\ Len(word_to_char.rows) = VocabLen(vocab)

\* two words, one with exactly max_char_len bytes and one with more: count 1
C4_Witness ==
    /\ ResetDone
    /\ built.max_char_len = 2
    /\ \E i \in RegularIndices(vocab) : Len(Encode(Symbol(vocab, i))) = 2
    /\ \E i \in RegularIndices(vocab) : Len(Encode(Symbol(vocab, i))) = 3
    /\ truncated = 1
    /\ printed = <<1, 2>>

-----------------------------------------------------------------------------
(* What forward returns and what it leaves behind. *)

\* forward was called in token-id mode / in raw-character mode
TokenCall == Called /\ ~char_inputs
CharCall == Called /\ char_inputs

\* the flat positions of the input as the caller passed it
Positions == 1..Len(Flat(inputBefore.data))
Before(n) == Flat(inputBefore.data)[n]
\* the vector returned for flat position n
Out(n) == Flat(output)[n]

\* every id of the batch is an index of the vocabulary
VocabularyIndices == \A n \in Positions : Before(n) \in 0..(VocabLen(vocab) - 1)

\* C1: in token-id mode, for a batch of vocabulary indices, no position is two of
\* pad, eos and unk, and the vector forward returns for a pad position is the
\* zero vector, for an eos position symbol_embeddings[eos_idx], for an unk
\* position symbol_embeddings[unk_idx], whatever the convolution computed for it.
C1_TokenMasking ==
    (TokenCall /\ VocabularyIndices) =>
        \A n \in Positions :
            LET isPad == Before(n) = vocab.pad
                isEos == Before(n) = vocab.eos
                isUnk == Before(n) = vocab.unk
            IN  /\ ~(isPad /\ isEos) /\ ~(isPad /\ isUnk) /\ ~(isEos /\ isUnk)
                /\ outcome = "ok" =>
                    /\ isPad => Out(n) = 0
                    /\ isEos => Out(n) = symbol_embeddings[eos_idx + 1]
                    /\ isUnk => Out(n) = symbol_embeddings[unk_idx + 1]

\* a batch of the eos id and the unk id, embedded with two different symbol rows
C1_Witness ==
    /\ TokenCall /\ outcome = "ok"
    /\ symbol_embeddings = <<1, 2>>
    /\ Flat(inputBefore.data) = <<vocab.eos, vocab.unk>>
    /\ Flat(output) = <<1, 2>>

\* a filter as wide as the rows allow, and a bank with some output channel
ValidConfiguration ==
    /\ \A f \in 1..Len(filters) : filters[f][1] <= max_char_len
    /\ \E f \in 1..Len(filters) : filters[f][2] > 0

\* C5: an embedder is never constructed with a filter wider than max_char_len or
\* with a bank of no output channels, so forward is never reached with one.
C5_InvalidConfigurationRejected == status = "constructed" => ValidConfiguration

\* C6: in raw-character mode, a row whose first code is the sentinel 257 reaches
\* _convolve as zeros and its vector is symbol_embeddings[eos_idx]; a row whose
\* first code is 0 gets the zero vector; no row gets the unk override.
C6_CharMasking ==
    CharCall =>
        \A n \in Positions :
            /\ Before(n)[1] = CHAR_EOS_IDX =>
                /\ convIn[n] = Zeros(max_char_len)
                /\ outcome = "ok" => Out(n) = symbol_embeddings[eos_idx + 1]
            /\ (Before(n)[1] = CHAR_PAD_IDX /\ outcome = "ok") => Out(n) = 0
            /\ outcome = "ok" => applied[n] # "unk"

\* a sentinel row followed by a character, and a pad row, embedded in one batch
C6_Witness ==
    /\ CharCall /\ outcome = "ok"
    /\ Flat(inputBefore.data) = << <<CHAR_EOS_IDX, RegularCode>>,
                                   <<CHAR_PAD_IDX, RegularCode>> >>
    /\ convIn = << <<0, 0>>, <<CHAR_PAD_IDX, RegularCode>> >>
    /\ Flat(output) = <<symbol_embeddings[eos_idx + 1], 0>>
    /\ applied = <<"eos", "pad">>

\* C8, as stated: a forward call in raw-character mode leaves the caller's input
\* tensor as it was.
C8_InputUnchanged == CharCall => input = inputBefore

\* C8, amended: a forward call in raw-character mode leaves every row of the
\* caller's input whose first code is not the sentinel as it was, and clears
\* every row whose first code is the sentinel to zeros in the caller's tensor.
C8_InputClearedInPlace ==
    CharCall =>
        /\ input.type = inputBefore.type
        /\ Len(input.data) = Len(inputBefore.data)
        /\ \A b \in 1..Len(input.data) : Len(input.data[b]) = Len(inputBefore.data[b])
        /\ \A n \in Positions :
            Flat(input.data)[n] =
                IF Before(n)[1] = CHAR_EOS_IDX THEN Zeros(max_char_len) ELSE Before(n)

\* the caller passed a sentinel row with a character after it, next to a plain row
C8_Witness ==
    /\ CharCall
    /\ Flat(inputBefore.data) = << <<RegularCode, RegularCode>>,
                                   <<CHAR_EOS_IDX, RegularCode>> >>
    /\ Flat(input.data) = << <<RegularCode, RegularCode>>, <<0, 0>> >>

\* a code of a raw-character row that is no character: outside 0..256, except
\* the sentinel in the first slot
InvalidCode(row, k) ==
    /\ row[k] < 0 \/ row[k] >= NumCharEmbeddings
    /\ ~(k = 1 /\ row[k] = CHAR_EOS_IDX)

HasInvalidCode == \E n \in Positions : \E k \in 1..Len(Before(n)) : InvalidCode(Before(n), k)

\* C9: a raw-character forward call whose input holds a code out of range raises
\* with the input as the caller passed it and with nothing returned.
C9_InvalidCodeRejected ==
    (CharCall /\ HasInvalidCode) =>
        /\ outcome # "ok"
        /\ input = inputBefore
        /\ output = None

-----------------------------------------------------------------------------
(* forward and set_vocab in two threads. *)

\* C7: no token-id forward call gathers its rows from the table of one
\* vocabulary and computes a mask from the reserved indices of another.
C7_ResetAtomic ==
    (fwd.pc = "done" /\ outcome # "IndexError") =>
        /\ fwd.charsOf = fwd.padOf
        /\ fwd.charsOf = fwd.eosOf
        /\ fwd.charsOf = fwd.unkOf

\* C10: while no set_vocab call is in progress, self.word_to_char holds the rows
\* built by the last set_vocab call that ended.
C10_ResetTableKept ==
    rst.pc = "idle" =>
        word_to_char.rows = BuildTable(rst.last.vocab, rst.last.max_char_len).rows

====
